---- MODULE Spec2Model ----
(***************************************************************************)
(* Model of fireworks/queue/queue_launcher.py: the rapid-fire submission   *)
(* loop (rapidfire), the single-job submitter (launch_rocket_to_queue),    *)
(* the block capacity count (_njobs_in_dir) and the queue probe with       *)
(* exponential backoff (_get_number_of_jobs_in_queue).                     *)
(*                                                                         *)
(* The queue adapter and the LaunchPad are the environment: every adapter  *)
(* answer is a nondeterministic choice, the LaunchPad is a counter of      *)
(* pending work items that reservations (ours or another worker's) drain.  *)
(***************************************************************************)
EXTENDS Integers, Sequences, FiniteSets, TLC

\* ---------------------------------------------------------------- bounds
MaxRetryAttempts == 1   \* QUEUE_RETRY_ATTEMPTS ranges over 0..MaxRetryAttempts
MaxProbeAttempts == 4   \* the same range when the probe is run on its own
MaxCount == 2           \* the adapter reports 0..MaxCount queued jobs
MaxQueue == 2           \* njobs_queue ranges over 0..MaxQueue
MaxBlock == 2           \* njobs_block ranges over 0..MaxBlock
MaxPending == 2         \* work items pending in the LaunchPad at the start
MaxRounds == 2          \* rounds of the outer loop followed in infinite mode
MaxLaunchers == 3       \* launcher directories followed in one invocation
MaxCalls == 2           \* direct calls of launch_rocket_to_queue in a row

\* ------------------------------------------------------------- constants
INITIAL_RETRY_INTERVAL == 30

None == -1              \* Python's None, as an answer of get_njobs_in_queue

Answers == {None} \cup (0..MaxCount)

VARIABLES
    \* configuration of the invocation (arguments and imported constants)
    QUEUE_RETRY_ATTEMPTS, njobs_queue, njobs_block, infinite, reserve,
    launch_dir_exists, entry,
    \* environment: the LaunchPad
    pending, next_fw_id, stolen,
    \* rapidfire
    pc, blocks, block_dir, jobs_in_queue, jobs_exist, round,
    \* launch_rocket_to_queue
    queue_params, cwd, script, submit_called, rendered_with,
    launcher_dir_exists, reserved_fw,
    \* _get_number_of_jobs_in_queue
    p_site, p_i, RETRY_INTERVAL, p_answer,
    \* observations of the current probe call
    probeAnswers, probeSleeps, probeOutcome,
    \* observations of the current round
    roundStartExists, roundLaunchers, roundLaunchCalls, roundSettleSleeps,
    roundLaunchFailed, roundReturnedBelow, roundReturnedNotBelow,
    \* observations since the last call of launch_rocket_to_queue
    freshBelow, freshWork,
    \* observations of the invocation
    launchCalls, errors_logged, stop_signal

config == <<QUEUE_RETRY_ATTEMPTS, njobs_queue, njobs_block, infinite, reserve,
            launch_dir_exists, entry>>
padVars == <<pending, next_fw_id, stolen>>
rfVars == <<blocks, block_dir, jobs_in_queue, jobs_exist, round>>
launchVars == <<queue_params, cwd, script, submit_called, rendered_with,
               launcher_dir_exists, reserved_fw>>
probeVars == <<p_site, p_i, RETRY_INTERVAL, p_answer>>
probeObs == <<probeAnswers, probeSleeps, probeOutcome>>
roundObs == <<roundStartExists, roundLaunchers, roundLaunchCalls,
              roundSettleSleeps, roundLaunchFailed, roundReturnedBelow,
              roundReturnedNotBelow, freshBelow, freshWork>>
totalObs == <<launchCalls, errors_logged, stop_signal>>

vars == <<config, padVars, pc, rfVars, launchVars, probeVars, probeObs,
          roundObs, totalObs>>

\* ------------------------------------------------------------ operators

\* the shared QueueParams.params as the caller hands it over: the base exe
\* with no "--fw id" token appended, and the base value of the other keys
BaseParams == [exe |-> <<>>, opt |-> 0]

\* for i in range(QUEUE_RETRY_ATTEMPTS): the loop body runs while i < attempts
InRetryRange(i, attempts) == i < attempts

\* if jobs_in_queue is not None
HasResult(a) == a # None

NextRetryInterval_linear(r) == r + INITIAL_RETRY_INTERVAL

\* RETRY_INTERVAL *= 2
NextRetryInterval(r) == r * 2

LoopCondition_inclusive(jq, q, je) == jq <= q /\ je

LoopCondition_ignoresWork(jq, q, je) == jq < q

\* while jobs_in_queue < njobs_queue and jobs_exist
LoopCondition(jq, q, je) == jq < q /\ je

BlockFull_strict(n, k) == n > k

\* if _njobs_in_dir(block_dir) >= njobs_block
BlockFull(n, k) == n >= k

\* len(glob.glob('<block_dir>/launcher_*'))
_njobs_in_dir(b) == blocks[b]

\* create_datestamp_dir(launch_dir, l_logger): a fresh, empty block directory
NewBlock(bs) == Append(bs, 0)

\* create_datestamp_dir(block_dir, l_logger, prefix='launcher_')
NewLauncher(bs, b) == [bs EXCEPT ![b] = @ + 1]

\* launchpad.run_exists()
run_exists == pending > 0

\* queue_params.params.update(fw.spec['_queueparams']) when the spec has it,
\* then queue_params.params['exe'] += ' --fw id {}'.format(fw.fw_id)
ReserveParams(qp, fw_id, has_override) ==
    [exe |-> Append(qp.exe, fw_id),
     opt |-> IF has_override THEN fw_id ELSE qp.opt]

RECURSIVE SumSeq(_)
SumSeq(s) == IF s = <<>> THEN 0 ELSE Head(s) + SumSeq(Tail(s))

\* launcher directories created so far, over all blocks
nLaunchers == SumSeq(blocks)

\* work items reserved by this invocation so far
nReserved == next_fw_id - 1

\* where launch_rocket_to_queue returns to: line 127 of rapidfire, or the
\* caller of a direct call
ReturnSite == IF entry = "rapidfire" THEN "settle" ELSE "returned"

\* a sleep (time.sleep at lines 129, 136, 169) is a sleep boundary for a
\* stop signal delivered before it
AfterSleep(sig) == IF sig = "delivered" THEN "slept" ELSE sig

\* ----------------------------------------------------------------- Init
Idle ==
    /\ next_fw_id = 1
    /\ stolen = FALSE
    /\ jobs_in_queue = None
    /\ jobs_exist = FALSE
    /\ queue_params = BaseParams
    /\ cwd = 0
    /\ script = "none"
    /\ submit_called = FALSE
    /\ rendered_with = BaseParams
    /\ p_site = "round"
    /\ p_i = 0
    /\ RETRY_INTERVAL = INITIAL_RETRY_INTERVAL
    /\ p_answer = None
    /\ probeAnswers = <<>>
    /\ probeSleeps = <<>>
    /\ probeOutcome = "idle"
    /\ roundStartExists = "unset"
    /\ roundLaunchers = 0
    /\ roundLaunchCalls = 0
    /\ roundSettleSleeps = 0
    /\ roundLaunchFailed = FALSE
    /\ roundReturnedBelow = FALSE
    /\ roundReturnedNotBelow = FALSE
    /\ launchCalls = 0
    /\ errors_logged = {}
    /\ reserved_fw = 0
    /\ freshBelow = FALSE
    /\ freshWork = FALSE
    /\ stop_signal = "no"

\* rapidfire is called
Init ==
    /\ QUEUE_RETRY_ATTEMPTS \in 0..MaxRetryAttempts
    /\ njobs_queue \in 0..MaxQueue
    /\ njobs_block \in 0..MaxBlock
    /\ infinite \in BOOLEAN
    /\ reserve \in BOOLEAN
    /\ launch_dir_exists \in BOOLEAN
    /\ entry = "rapidfire"
    /\ launcher_dir_exists = FALSE
    /\ pending \in 0..MaxPending
    /\ pc = "rf_start"
    /\ blocks = <<>>
    /\ block_dir = 0
    /\ round = 0
    /\ Idle

\* _get_number_of_jobs_in_queue is called, as at line 112
InitProbe ==
    /\ QUEUE_RETRY_ATTEMPTS \in 0..MaxProbeAttempts
    /\ njobs_queue \in 0..MaxQueue
    /\ njobs_block = 1
    /\ infinite = FALSE
    /\ reserve = FALSE
    /\ launch_dir_exists = TRUE
    /\ entry = "rapidfire"
    /\ launcher_dir_exists = FALSE
    /\ pending = 0
    /\ pc = "probe"
    /\ blocks = <<0>>
    /\ block_dir = 1
    /\ round = 1
    /\ Idle

\* launch_rocket_to_queue is called directly, with a launcher_dir that
\* exists or not, on the caller's QueueParams
InitLaunch ==
    /\ QUEUE_RETRY_ATTEMPTS = 0
    /\ njobs_queue = 0
    /\ njobs_block = 0
    /\ infinite = FALSE
    /\ reserve \in BOOLEAN
    /\ launch_dir_exists = TRUE
    /\ entry = "launch"
    /\ launcher_dir_exists \in BOOLEAN
    /\ pending \in 0..MaxPending
    /\ pc = "l_enter"
    /\ blocks = <<>>
    /\ block_dir = 0
    /\ round = 0
    /\ Idle

\* either entry point of the module is called
InitCalls == Init \/ InitLaunch

\* ------------------------------------------------------------ rapidfire

\* lines 102-103: the launch directory is missing, ValueError to the caller
RfMissingDir ==
    /\ pc = "rf_start"
    /\ ~launch_dir_exists
    /\ pc' = "raised"
    /\ UNCHANGED <<config, padVars, rfVars, launchVars, probeVars, probeObs,
                   roundObs, totalObs>>

RfStart_workFirst ==
    /\ pc = "rf_start"
    /\ launch_dir_exists
    /\ blocks' = NewBlock(blocks)
    /\ block_dir' = Len(blocks')
    /\ round' = 1
    /\ p_site' = "round"
    /\ pc' = "round_exists"
    /\ UNCHANGED <<config, padVars, jobs_in_queue, jobs_exist, launchVars,
                   p_i, RETRY_INTERVAL, p_answer, probeObs, roundObs, totalObs>>

\* lines 105-112: first block, then the first round's probe is called
RfStart ==
    /\ pc = "rf_start"
    /\ launch_dir_exists
    /\ blocks' = NewBlock(blocks)
    /\ block_dir' = Len(blocks')
    /\ round' = 1
    /\ p_site' = "round"
    /\ pc' = "probe"
    /\ UNCHANGED <<config, padVars, jobs_in_queue, jobs_exist, launchVars,
                   p_i, RETRY_INTERVAL, p_answer, probeObs, roundObs, totalObs>>

\* line 113: jobs_exist = launchpad.run_exists()
RoundExists ==
    /\ pc = "round_exists"
    /\ jobs_exist' = run_exists
    /\ freshWork' = run_exists
    /\ roundStartExists' = IF run_exists THEN "yes" ELSE "no"
    /\ pc' = "loop_test"
    /\ UNCHANGED <<config, padVars, blocks, block_dir, jobs_in_queue, round,
                   launchVars, probeVars, probeObs, roundLaunchers,
                   roundLaunchCalls, roundSettleSleeps, roundLaunchFailed,
                   roundReturnedBelow, roundReturnedNotBelow, freshBelow,
                   totalObs>>

\* line 115, condition true
LoopEnter ==
    /\ pc = "loop_test"
    /\ LoopCondition(jobs_in_queue, njobs_queue, jobs_exist)
    /\ pc' = "rotate"
    /\ UNCHANGED <<config, padVars, rfVars, launchVars, probeVars, probeObs,
                   roundObs, totalObs>>

\* line 115, condition false
LoopExit ==
    /\ pc = "loop_test"
    /\ ~LoopCondition(jobs_in_queue, njobs_queue, jobs_exist)
    /\ pc' = "round_end"
    /\ UNCHANGED <<config, padVars, rfVars, launchVars, probeVars, probeObs,
                   roundObs, totalObs>>

\* lines 119-121: the block is full, switch to a new block
Rotate ==
    /\ pc = "rotate"
    /\ BlockFull(_njobs_in_dir(block_dir), njobs_block)
    /\ blocks' = NewBlock(blocks)
    /\ block_dir' = Len(blocks')
    /\ pc' = "mk_launcher"
    /\ UNCHANGED <<config, padVars, jobs_in_queue, jobs_exist, round,
                   launchVars, probeVars, probeObs, roundObs, totalObs>>

\* line 119, condition false
NoRotate ==
    /\ pc = "rotate"
    /\ ~BlockFull(_njobs_in_dir(block_dir), njobs_block)
    /\ pc' = "mk_launcher"
    /\ UNCHANGED <<config, padVars, rfVars, launchVars, probeVars, probeObs,
                   roundObs, totalObs>>

\* line 124: launcher_dir = create_datestamp_dir(block_dir, ..., 'launcher_')
CreateLauncher ==
    /\ pc = "mk_launcher"
    /\ nLaunchers < MaxLaunchers
    /\ blocks' = NewLauncher(blocks, block_dir)
    /\ launcher_dir_exists' = TRUE
    /\ roundLaunchers' = roundLaunchers + 1
    /\ pc' = "l_enter"
    /\ UNCHANGED <<config, padVars, block_dir, jobs_in_queue, jobs_exist,
                   round, queue_params, cwd, script, submit_called,
                   rendered_with, reserved_fw, probeVars, probeObs, roundStartExists,
                   roundLaunchCalls, roundSettleSleeps, roundLaunchFailed,
                   roundReturnedBelow, roundReturnedNotBelow, freshBelow,
                   freshWork, totalObs>>

SettleSleep_skipped ==
    /\ pc = "settle"
    /\ pc' = "post_exists"
    /\ UNCHANGED <<config, padVars, rfVars, launchVars, probeVars, probeObs,
                   roundObs, totalObs>>

\* line 129: time.sleep(QUEUE_UPDATE_INTERVAL)
SettleSleep ==
    /\ pc = "settle"
    /\ roundSettleSleeps' = roundSettleSleeps + 1
    /\ stop_signal' = AfterSleep(stop_signal)
    /\ pc' = "post_exists"
    /\ UNCHANGED <<config, padVars, rfVars, launchVars, probeVars, probeObs,
                   roundStartExists, roundLaunchers, roundLaunchCalls,
                   roundLaunchFailed, roundReturnedBelow,
                   roundReturnedNotBelow, freshBelow, freshWork,
                   launchCalls, errors_logged>>

\* lines 130-131: jobs_exist = not launchpad or launchpad.run_exists()
\* (launchpad is an object, line 93), then the probe is called
PostExists ==
    /\ pc = "post_exists"
    /\ jobs_exist' = run_exists
    /\ freshWork' = run_exists
    /\ p_site' = "post"
    /\ pc' = "probe"
    /\ UNCHANGED <<config, padVars, blocks, block_dir, jobs_in_queue, round,
                   launchVars, p_i, RETRY_INTERVAL, p_answer, probeObs,
                   roundStartExists, roundLaunchers, roundLaunchCalls,
                   roundSettleSleeps, roundLaunchFailed, roundReturnedBelow,
                   roundReturnedNotBelow, freshBelow, totalObs>>

\* lines 133-134: if not infinite: break
RoundEndBreak ==
    /\ pc = "round_end"
    /\ ~infinite
    /\ pc' = "done"
    /\ UNCHANGED <<config, padVars, rfVars, launchVars, probeVars, probeObs,
                   roundObs, totalObs>>

\* lines 135-137 and 112: time.sleep(sleep_time), then the next round's probe
RoundEndSleep ==
    /\ pc = "round_end"
    /\ infinite
    /\ round < MaxRounds
    /\ round' = round + 1
    /\ roundStartExists' = "unset"
    /\ roundLaunchers' = 0
    /\ roundLaunchCalls' = 0
    /\ roundSettleSleeps' = 0
    /\ roundLaunchFailed' = FALSE
    /\ roundReturnedBelow' = FALSE
    /\ roundReturnedNotBelow' = FALSE
    /\ freshBelow' = FALSE
    /\ freshWork' = FALSE
    /\ stop_signal' = AfterSleep(stop_signal)
    /\ p_site' = "round"
    /\ pc' = "probe"
    /\ UNCHANGED <<config, padVars, blocks, block_dir, jobs_in_queue,
                   jobs_exist, launchVars, p_i, RETRY_INTERVAL, p_answer,
                   probeObs, launchCalls, errors_logged>>

\* lines 139-140: except: log_exception(...), rapidfire returns
RfExcept ==
    /\ pc = "rf_except"
    /\ errors_logged' = errors_logged \cup {"rapidfire"}
    /\ pc' = "done"
    /\ UNCHANGED <<config, padVars, rfVars, launchVars, probeVars, probeObs,
                   roundObs, launchCalls, stop_signal>>

\* -------------------------------------------- _get_number_of_jobs_in_queue

\* lines 161-163: RETRY_INTERVAL = 30, first call of the adapter
ProbeCall ==
    /\ pc = "probe"
    /\ \E a \in Answers :
          /\ p_answer' = a
          /\ probeAnswers' = <<a>>
    /\ p_i' = 0
    /\ RETRY_INTERVAL' = INITIAL_RETRY_INTERVAL
    /\ probeSleeps' = <<>>
    /\ probeOutcome' = "running"
    /\ pc' = "probe_loop"
    /\ UNCHANGED <<config, padVars, rfVars, launchVars, p_site, roundObs,
                   totalObs>>

\* lines 164-167: inside the loop, the answer is a number: return it
ProbeReturn ==
    /\ pc = "probe_loop"
    /\ InRetryRange(p_i, QUEUE_RETRY_ATTEMPTS)
    /\ HasResult(p_answer)
    /\ probeOutcome' = "returned"
    /\ pc' = "probe_ret"
    /\ UNCHANGED <<config, padVars, rfVars, launchVars, probeVars,
                   probeAnswers, probeSleeps, roundObs, totalObs>>

\* lines 168-171: sleep, double the interval, call the adapter again
ProbeRetry ==
    /\ pc = "probe_loop"
    /\ InRetryRange(p_i, QUEUE_RETRY_ATTEMPTS)
    /\ ~HasResult(p_answer)
    /\ probeSleeps' = Append(probeSleeps, RETRY_INTERVAL)
    /\ RETRY_INTERVAL' = NextRetryInterval(RETRY_INTERVAL)
    /\ \E a \in Answers :
          /\ p_answer' = a
          /\ probeAnswers' = Append(probeAnswers, a)
    /\ p_i' = p_i + 1
    /\ stop_signal' = AfterSleep(stop_signal)
    /\ UNCHANGED <<config, padVars, pc, rfVars, launchVars, p_site,
                   probeOutcome, roundObs, launchCalls, errors_logged>>

ProbeRaise_swallowed ==
    /\ pc = "probe_loop"
    /\ ~InRetryRange(p_i, QUEUE_RETRY_ATTEMPTS)
    /\ probeOutcome' = "raised"
    /\ pc' = IF p_site = "round" THEN "round_exists" ELSE "loop_test"
    /\ UNCHANGED <<config, padVars, rfVars, launchVars, probeVars,
                   probeAnswers, probeSleeps, roundObs, totalObs>>

\* line 173: the loop is over, raise RuntimeError (caught at line 139)
ProbeRaise ==
    /\ pc = "probe_loop"
    /\ ~InRetryRange(p_i, QUEUE_RETRY_ATTEMPTS)
    /\ probeOutcome' = "raised"
    /\ pc' = "rf_except"
    /\ UNCHANGED <<config, padVars, rfVars, launchVars, probeVars,
                   probeAnswers, probeSleeps, roundObs, totalObs>>

\* lines 112 and 131: jobs_in_queue = <the returned number>; the frame of
\* the probe is gone
ProbeAssign ==
    /\ pc = "probe_ret"
    /\ jobs_in_queue' = p_answer
    /\ roundReturnedBelow' = (roundReturnedBelow \/ p_answer < njobs_queue)
    /\ roundReturnedNotBelow' =
          (roundReturnedNotBelow \/ p_answer >= njobs_queue)
    /\ freshBelow' = (p_answer < njobs_queue)
    /\ p_answer' = None
    /\ p_i' = 0
    /\ RETRY_INTERVAL' = INITIAL_RETRY_INTERVAL
    /\ probeAnswers' = <<>>
    /\ probeSleeps' = <<>>
    /\ probeOutcome' = "idle"
    /\ pc' = IF p_site = "round" THEN "round_exists" ELSE "loop_test"
    /\ UNCHANGED <<config, padVars, blocks, block_dir, jobs_exist, round,
                   launchVars, p_site, roundStartExists, roundLaunchers,
                   roundLaunchCalls, roundSettleSleeps, roundLaunchFailed,
                   freshWork, totalObs>>

\* ------------------------------------------------- launch_rocket_to_queue

LaunchMissingDir_afterChdir ==
    /\ pc = "l_enter"
    /\ ~launcher_dir_exists
    /\ cwd' = launchCalls + 1
    /\ pc' = IF entry = "rapidfire" THEN "rf_except" ELSE "raised"
    /\ UNCHANGED <<config, padVars, rfVars, queue_params, script,
                   submit_called, rendered_with, launcher_dir_exists,
                   reserved_fw, probeVars, probeObs, roundObs, totalObs>>

\* lines 34-45: launcher_dir does not exist, ValueError, raised before the
\* try of line 47: to the caller, which inside rapidfire is the try of 105
LaunchMissingDir ==
    /\ pc = "l_enter"
    /\ ~launcher_dir_exists
    /\ pc' = IF entry = "rapidfire" THEN "rf_except" ELSE "raised"
    /\ UNCHANGED <<config, padVars, rfVars, launchVars, probeVars, probeObs,
                   roundObs, totalObs>>

\* the caller of a direct call calls launch_rocket_to_queue again, with the
\* same QueueParams and another launcher_dir
CallAgain ==
    /\ pc = "returned"
    /\ launchCalls < MaxCalls
    /\ launcher_dir_exists' \in BOOLEAN
    /\ pc' = "l_enter"
    /\ UNCHANGED <<config, padVars, rfVars, queue_params, cwd, script,
                   submit_called, rendered_with, reserved_fw, probeVars,
                   probeObs, roundObs, totalObs>>

\* lines 126, 34-54: the call; the launcher directory was just created, so
\* the existence test passes; os.chdir(launcher_dir)
LaunchEnter ==
    /\ pc = "l_enter"
    /\ launcher_dir_exists
    /\ cwd' = launchCalls + 1
    /\ reserved_fw' = 0
    /\ freshBelow' = FALSE
    /\ freshWork' = FALSE
    /\ script' = "none"
    /\ submit_called' = FALSE
    /\ launchCalls' = launchCalls + 1
    /\ roundLaunchCalls' = roundLaunchCalls + 1
    /\ pc' = IF reserve THEN "l_reserve" ELSE "l_render"
    /\ UNCHANGED <<config, padVars, rfVars, queue_params, rendered_with,
                   launcher_dir_exists, probeVars, probeObs, roundStartExists, roundLaunchers,
                   roundSettleSleeps, roundLaunchFailed, roundReturnedBelow,
                   roundReturnedNotBelow, errors_logged, stop_signal>>

\* lines 58-65: a FireWork is reserved; its '_queueparams' (if any) and its
\* fw_id go into the shared queue_params.params
LaunchReserve ==
    /\ pc = "l_reserve"
    /\ pending > 0
    /\ pending' = pending - 1
    /\ next_fw_id' = next_fw_id + 1
    /\ \E has_override \in BOOLEAN :
          queue_params' = ReserveParams(queue_params, next_fw_id, has_override)
    /\ reserved_fw' = next_fw_id
    /\ pc' = "l_render"
    /\ UNCHANGED <<config, stolen, rfVars, cwd, script, submit_called,
                   rendered_with, launcher_dir_exists, probeVars, probeObs, roundObs, totalObs>>

\* lines 58-59: no FireWork to reserve, the exception goes to line 79
LaunchReserveFail ==
    /\ pc = "l_reserve"
    /\ pending = 0
    /\ pc' = "l_except"
    /\ UNCHANGED <<config, padVars, rfVars, launchVars, probeVars, probeObs,
                   roundObs, totalObs>>

\* lines 69-73: open the script file for writing, render; an empty script
\* raises RuntimeError, otherwise the script is written
LaunchRender ==
    /\ pc = "l_render"
    /\ rendered_with' = queue_params
    /\ \E rendered \in BOOLEAN :
          IF rendered
          THEN /\ script' = "written"
               /\ pc' = "l_submit"
          ELSE /\ script' = "empty"
               /\ pc' = "l_except"
    /\ UNCHANGED <<config, padVars, rfVars, queue_params, cwd, submit_called,
                   launcher_dir_exists, reserved_fw,
                   probeVars, probeObs, roundObs, totalObs>>

\* lines 76-77: qa.submit_to_queue; a false result raises RuntimeError
LaunchSubmit ==
    /\ pc = "l_submit"
    /\ submit_called' = TRUE
    /\ \E accepted \in BOOLEAN :
          pc' = IF accepted THEN ReturnSite ELSE "l_except"
    /\ UNCHANGED <<config, padVars, rfVars, queue_params, cwd, script,
                   rendered_with, launcher_dir_exists, reserved_fw, probeVars, probeObs, roundObs, totalObs>>

\* lines 79-80: except: log_exception(...); the call returns normally
LaunchExcept ==
    /\ pc = "l_except"
    /\ roundLaunchFailed' = TRUE
    /\ errors_logged' = errors_logged \cup {"rocket"}
    /\ pc' = ReturnSite
    /\ UNCHANGED <<config, padVars, rfVars, launchVars, probeVars, probeObs,
                   roundStartExists, roundLaunchers, roundLaunchCalls,
                   roundSettleSleeps, roundReturnedBelow,
                   roundReturnedNotBelow, freshBelow, freshWork,
                   launchCalls, stop_signal>>

\* ------------------------------------------------------------ environment

\* another worker reserves a pending item of the same LaunchPad
OtherWorkerReserves ==
    /\ pc \notin {"rf_start", "raised", "done"}
    /\ pending > 0
    /\ pending' = pending - 1
    /\ stolen' = TRUE
    /\ UNCHANGED <<config, next_fw_id, pc, rfVars, launchVars, probeVars,
                   probeObs, roundObs, totalObs>>

Next ==
    \/ RfMissingDir
    \/ RfStart
    \/ RoundExists
    \/ LoopEnter
    \/ LoopExit
    \/ Rotate
    \/ NoRotate
    \/ CreateLauncher
    \/ SettleSleep
    \/ PostExists
    \/ RoundEndBreak
    \/ RoundEndSleep
    \/ RfExcept
    \/ ProbeCall
    \/ ProbeReturn
    \/ ProbeRetry
    \/ ProbeRaise
    \/ ProbeAssign
    \/ LaunchEnter
    \/ LaunchReserve
    \/ LaunchReserveFail
    \/ LaunchRender
    \/ LaunchSubmit
    \/ LaunchExcept
    \/ OtherWorkerReserves

Spec == Init /\ [][Next]_vars

\* both entry points, launch_rocket_to_queue also called directly
NextCalls ==
    \/ Next
    \/ LaunchMissingDir
    \/ CallAgain

SpecCalls == InitCalls /\ [][NextCalls]_vars

\* rapidfire is called with infinite=False on an existing launch_dir
InitOnce ==
    /\ Init
    /\ ~infinite
    /\ launch_dir_exists

\* the steps of the one thread of rapidfire(infinite=False)
ProgramStep ==
    \/ RfStart
    \/ RoundExists
    \/ LoopEnter
    \/ LoopExit
    \/ Rotate
    \/ NoRotate
    \/ CreateLauncher
    \/ SettleSleep
    \/ PostExists
    \/ RoundEndBreak
    \/ RfExcept
    \/ ProbeCall
    \/ ProbeReturn
    \/ ProbeRetry
    \/ ProbeRaise
    \/ ProbeAssign
    \/ LaunchEnter
    \/ LaunchReserve
    \/ LaunchReserveFail
    \/ LaunchRender
    \/ LaunchSubmit
    \/ LaunchExcept

NextOnce ==
    \/ ProgramStep
    \/ OtherWorkerReserves

\* the thread keeps running: every call and every sleep it makes returns
SpecOnce == InitOnce /\ [][NextOnce]_vars /\ WF_vars(ProgramStep)

\* rapidfire is called with infinite=True on an existing launch_dir
InitSignal ==
    /\ Init
    /\ infinite
    /\ launch_dir_exists

\* where a KeyboardInterrupt raised at the current line is caught: inside
\* the try of launch_rocket_to_queue (lines 47-77) by its bare except at
\* line 79, anywhere else in the loop by rapidfire's bare except at 139
InterruptHandler ==
    IF pc \in {"l_reserve", "l_render", "l_submit"}
    THEN "l_except"
    ELSE "rf_except"

\* the process receives an interrupt once, at any line of the loop
Interrupt ==
    /\ stop_signal = "no"
    /\ pc \in {"probe", "probe_loop", "probe_ret", "round_exists",
               "loop_test", "rotate", "mk_launcher", "l_enter", "l_reserve",
               "l_render", "l_submit", "l_except", "settle", "post_exists",
               "round_end"}
    /\ stop_signal' = "delivered"
    /\ pc' = InterruptHandler
    /\ UNCHANGED <<config, padVars, rfVars, launchVars, probeVars, probeObs,
                   roundObs, launchCalls, errors_logged>>

NextSignal ==
    \/ RfStart
    \/ RoundExists
    \/ LoopEnter
    \/ LoopExit
    \/ Rotate
    \/ NoRotate
    \/ CreateLauncher
    \/ SettleSleep
    \/ PostExists
    \/ RoundEndSleep
    \/ RfExcept
    \/ ProbeCall
    \/ ProbeReturn
    \/ ProbeRetry
    \/ ProbeRaise
    \/ ProbeAssign
    \/ LaunchEnter
    \/ LaunchReserve
    \/ LaunchReserveFail
    \/ LaunchRender
    \/ LaunchSubmit
    \/ LaunchExcept
    \/ OtherWorkerReserves
    \/ Interrupt

SpecSignal == InitSignal /\ [][NextSignal]_vars

\* the probe on its own: one call, up to its return or its raise
NextProbe ==
    \/ ProbeCall
    \/ ProbeReturn
    \/ ProbeRetry
    \/ ProbeRaise
    \/ ProbeAssign

SpecProbe == InitProbe /\ [][NextProbe]_vars

TypeOK ==
    /\ pc \in {"rf_start", "raised", "probe", "probe_loop", "probe_ret",
               "round_exists", "loop_test", "rotate", "mk_launcher",
               "l_enter", "l_reserve", "l_render", "l_submit", "l_except",
               "settle", "post_exists", "round_end", "rf_except", "done",
               "returned"}
    /\ pending \in 0..MaxPending
    /\ jobs_in_queue \in Answers
    /\ block_dir \in 0..Len(blocks)
    /\ probeOutcome \in {"idle", "running", "returned", "raised"}
    /\ entry = "rapidfire" => launchCalls \in {nLaunchers, nLaunchers - 1}

\* ------------------------------------------------------------------ claims

AllNone(s) == \A k \in 1..Len(s) : s[k] = None

\* the sleeps 30, 60, 120, ...: the k-th is 30 * 2^(k-1)
BackoffSchedule(n) == [k \in 1..n |-> 30 * 2^(k - 1)]

\* C1: while the adapter has answered None on every call of a probe, the
\* probe has not returned a number, it has made at most
\* QUEUE_RETRY_ATTEMPTS retries after the first call, the sleeps between the
\* calls are 30, 60, 120, ... in this order, and when it raises it has made
\* exactly QUEUE_RETRY_ATTEMPTS retries.
C1_PersistentUnknownRaises ==
    (probeOutcome # "idle" /\ AllNone(probeAnswers)) =>
        /\ probeOutcome # "returned"
        /\ Len(probeAnswers) <= QUEUE_RETRY_ATTEMPTS + 1
        /\ probeSleeps = BackoffSchedule(Len(probeAnswers) - 1)
        /\ (probeOutcome = "raised" =>
               Len(probeAnswers) = QUEUE_RETRY_ATTEMPTS + 1)
        /\ (Len(probeAnswers) = QUEUE_RETRY_ATTEMPTS + 1 =>
               probeOutcome = "raised" \/ ENABLED ProbeRaise)

C1_Witness ==
    /\ probeOutcome = "raised"
    /\ AllNone(probeAnswers)
    /\ QUEUE_RETRY_ATTEMPTS = 3
    /\ probeSleeps = <<30, 60, 120>>

\* C2: whenever a call of the adapter made by the probe answers a number,
\* that call is the last one, no sleep follows it, the probe does not raise
\* and the number is what the probe returns.
C2_FirstIntegerReturned ==
    \A k \in 1..Len(probeAnswers) :
        probeAnswers[k] # None =>
            /\ k = Len(probeAnswers)
            /\ Len(probeSleeps) = k - 1
            /\ probeOutcome \in {"running", "returned"}
            /\ p_answer = probeAnswers[k]

\* C3, as claimed: no block directory holds more than njobs_block launcher
\* directories, whatever njobs_block is.
C3_BlockWithinCapacity ==
    \A b \in 1..Len(blocks) : blocks[b] <= njobs_block

\* the capacity the rotation test of line 119 can enforce: a launcher is
\* created in the block the test leaves current, so no block holds fewer
\* than one once it is used
EffectiveCapacity == IF njobs_block >= 1 THEN njobs_block ELSE 1

\* C3, amended: no block directory holds more than njobs_block launcher
\* directories when njobs_block >= 1, and no more than one otherwise.
C3_BlockWithinEffectiveCapacity ==
    \A b \in 1..Len(blocks) : blocks[b] <= EffectiveCapacity

C3_Witness ==
    /\ njobs_block = 2
    /\ blocks = <<2, 1>>
    /\ pc = "settle"

\* C4: with njobs_block = k, as long as k+1 launcher directories exist and
\* rapidfire has not already opened the block of launcher k+2 (the rotation
\* of line 121 precedes its creation), exactly two block directories exist
\* and the second holds exactly one launcher directory.
C4_OverflowOpensSecondBlock ==
    (nLaunchers = njobs_block + 1 /\ pc # "mk_launcher") =>
        /\ Len(blocks) = 2
        /\ blocks[2] = 1
        /\ blocks[1] = njobs_block

C4_Witness ==
    /\ njobs_block = 2
    /\ nLaunchers = 3
    /\ pc = "l_enter"
    /\ Len(blocks) = 2

\* C5: a reservation (lines 58-65) leaves the shared queue_params.params,
\* exe included, as the caller handed it over.
C5_ReserveLeavesParams ==
    [][pc = "l_reserve" => queue_params' = queue_params]_vars

\* C6: in a round where no probe has returned a count below njobs_queue,
\* rapidfire has called launch_rocket_to_queue zero times and created zero
\* launcher directories, whether or not pending work exists.
C6_NoSubmissionAtTarget ==
    ~roundReturnedBelow =>
        /\ roundLaunchCalls = 0
        /\ roundLaunchers = 0
        /\ pc \notin {"rotate", "mk_launcher", "l_enter", "l_reserve",
                      "l_render", "l_submit", "l_except", "settle"}

C6_Witness ==
    /\ pc = "round_end"
    /\ njobs_queue = 2
    /\ jobs_in_queue = 2
    /\ roundReturnedNotBelow
    /\ ~roundReturnedBelow
    /\ roundStartExists = "yes"
    /\ jobs_exist
    /\ pending > 0

\* C7: in a round whose first pending-work query (line 113) answered false,
\* no launcher directory is created, launch_rocket_to_queue is not called,
\* the QUEUE_UPDATE_INTERVAL sleep is not executed, and the round goes
\* straight from the loop test to its end.
C7_NoWorkNoLaunch ==
    roundStartExists = "no" =>
        /\ roundLaunchers = 0
        /\ roundLaunchCalls = 0
        /\ roundSettleSleeps = 0
        /\ pc \in {"loop_test", "round_end", "done"}

C7_Witness ==
    /\ roundStartExists = "no"
    /\ pc = "round_end"
    /\ jobs_in_queue < njobs_queue
    /\ roundSettleSleeps = 0

\* the scenario of C8: target 2, block capacity 1, one round, reservation
\* mode, two pending items that only this invocation reserves, every probe
\* returning a count below 2
C8_Scenario ==
    /\ njobs_queue = 2
    /\ njobs_block = 1
    /\ ~infinite
    /\ reserve
    /\ ~stolen
    /\ pending + nReserved = 2
    /\ ~roundReturnedNotBelow
    /\ "rapidfire" \notin errors_logged

\* C8: in that scenario rapidfire ends with exactly two block directories of
\* one launcher directory each and exactly two calls of
\* launch_rocket_to_queue, the last post-check having found no pending work;
\* and it does not start a third launch.
C8_EndToEnd ==
    C8_Scenario =>
        /\ launchCalls <= 2
        /\ (pc = "done" =>
               /\ blocks = <<1, 1>>
               /\ launchCalls = 2
               /\ nReserved = 2
               /\ ~jobs_exist)

C8_Witness ==
    /\ C8_Scenario
    /\ pc = "done"
    /\ blocks = <<1, 1>>
    /\ launchCalls = 2

\* C9: in infinite mode a failure inside a round does not end the
\* controller; in particular, after a probe that exhausted its retries on
\* None answers, rapidfire has not returned.
C9_InfiniteSurvivesFailure ==
    (infinite /\ probeOutcome = "raised" /\ AllNone(probeAnswers)) =>
        pc # "done"

\* C10: once a call of launch_rocket_to_queue has failed in a round,
\* rapidfire creates no further launcher directory and makes no further
\* call of launch_rocket_to_queue in that round.
C10_FailedLaunchEndsRound ==
    [][(roundLaunchFailed /\ round' = round) =>
          /\ roundLaunchers' = roundLaunchers
          /\ roundLaunchCalls' = roundLaunchCalls]_vars

\* C11: once a probe has raised for want of a successful read, rapidfire
\* is in its except clause or has returned, it still holds the count of the
\* last successful probe (never the None of the failed one), and no launcher
\* directory is created and launch_rocket_to_queue is not called any more.
C11_FailedProbeAbortsRound ==
    /\ probeOutcome = "raised" =>
          /\ pc \in {"rf_except", "done"}
          /\ launchCalls = nLaunchers
    /\ pc \in {"rotate", "mk_launcher", "l_enter"} =>
          /\ probeOutcome = "idle"
          /\ HasResult(jobs_in_queue)

C11_Witness ==
    /\ probeOutcome = "raised"
    /\ AllNone(probeAnswers)
    /\ pc = "done"
    /\ p_site = "post"
    /\ launchCalls = 1
    /\ jobs_exist
    /\ jobs_in_queue < njobs_queue

\* C19: whenever rapidfire is at the pending-work query of line 130, in a
\* probe, at the loop test or at the end of a round, it has slept
\* QUEUE_UPDATE_INTERVAL once for every call of launch_rocket_to_queue of
\* the round: no query and no probe follows a call without the sleep.
C19_SettleBeforeRecheck ==
    pc \in {"post_exists", "probe", "probe_loop", "probe_ret", "round_exists",
            "loop_test", "round_end"} =>
        roundSettleSleeps = roundLaunchCalls

C19_Witness ==
    /\ pc = "probe_loop"
    /\ p_site = "post"
    /\ roundLaunchCalls = 2
    /\ roundSettleSleeps = 2
    /\ roundLaunchFailed

\* C12: the step by which launch_rocket_to_queue or rapidfire raises for a
\* missing directory changes nothing: not the working directory, the
\* LaunchPad, the queue parameters, the script file, the blocks, nor does
\* it submit, probe or log; and nothing has been done by that call before.
C12_MissingDirNoSideEffect ==
    [][pc' = "raised" =>
          /\ pc \in {"rf_start", "l_enter"}
          /\ UNCHANGED <<cwd, padVars, queue_params, script, submit_called,
                         rendered_with, reserved_fw, blocks, block_dir,
                         probeVars, probeObs, launchCalls, errors_logged>>
          /\ (entry = "rapidfire" =>
                 blocks' = <<>> /\ probeOutcome' = "idle" /\ cwd' = 0)]_vars

C12_Witness ==
    /\ pc = "raised"
    /\ entry = "launch"
    /\ reserve
    /\ launchCalls = 1
    /\ pending > 0
    /\ cwd = 1
    /\ script = "written"

\* C13: when the first call of launch_rocket_to_queue has returned, on
\* whatever path, the working directory is the one from before the call.
C13_WorkingDirRestored ==
    (pc \in {"settle", "returned"} /\ launchCalls = 1) => cwd = 0

\* C14: rapidfire goes to a submission (rotation test, launcher creation,
\* call of launch_rocket_to_queue) only when, since the previous call or
\* the start of the round, a probe has returned a count below njobs_queue
\* and a pending-work query has answered true.
C14_FreshReadingsGuardLaunch ==
    pc \in {"rotate", "mk_launcher", "l_enter"} =>
        /\ freshBelow
        /\ freshWork
        /\ jobs_in_queue < njobs_queue
        /\ jobs_exist

C14_Witness ==
    /\ pc = "l_enter"
    /\ launchCalls = 1
    /\ roundLaunchCalls = 1
    /\ freshBelow
    /\ freshWork
    /\ pending = 0

\* C15: within a call of launch_rocket_to_queue a failed step prevents the
\* later ones: without a reservation (when requested) nothing is rendered,
\* written or submitted, a script file exists only with a rendered script
\* in it, and the adapter's submit is called only on a written script.
C15_FailureStopsLaterSteps ==
    /\ (reserve /\ reserved_fw = 0) => (script = "none" /\ ~submit_called)
    /\ script \in {"none", "written"}
    /\ submit_called => script = "written"

\* C16: in reservation mode the parameters a script is rendered with carry
\* the token of the work item reserved for this submission and of no other,
\* and no override of another work item.
C16_ExeCarriesOneToken ==
    (reserve /\ script # "none") =>
        /\ rendered_with.exe = <<reserved_fw>>
        /\ rendered_with.opt \in {BaseParams.opt, reserved_fw}

\* C17, as claimed: with no pending work from the start of the invocation
\* on, no probe backoff sleep occurs.
C17_NoWorkNoBackoff ==
    (pending = 0 /\ ~stolen /\ nReserved = 0) => probeSleeps = <<>>

\* C17, amended: the pending-work query of a round is made only after the
\* round's probe has returned a count (so backoff sleeps and a failed probe
\* come first); once the query has answered false, the round makes no
\* submission and no sleep of any kind, no further probe, and ends.
C17_ProbeBeforeWorkQuery ==
    /\ roundStartExists # "unset" =>
          (roundReturnedBelow \/ roundReturnedNotBelow)
    /\ pc = "round_exists" => HasResult(jobs_in_queue)
    /\ roundStartExists = "no" =>
          /\ probeOutcome = "idle"
          /\ roundSettleSleeps = 0
          /\ roundLaunchCalls = 0
          /\ pc \in {"loop_test", "round_end", "done"}

C17_Witness ==
    /\ roundStartExists = "no"
    /\ pc = "done"
    /\ pending = 0
    /\ ~stolen
    /\ nLaunchers = 0
    /\ QUEUE_RETRY_ATTEMPTS = 1

\* C18: with infinite=False rapidfire runs one round only; once the inner
\* loop has exited it makes no further probe, submission or sleep and goes
\* to its end; and an invocation in which every submission consumes a
\* pending item (reserve mode), or which starts with nothing pending,
\* eventually reaches its end.
C18_OneRoundThenEnd ==
    /\ [](round <= 1)
    /\ [][(pc \in {"round_end", "done"}) =>
            (/\ pc' \in {"round_end", "done"}
             /\ UNCHANGED <<round, launchCalls, submit_called, probeVars,
                            probeObs, roundSettleSleeps, stop_signal,
                            blocks>>)]_vars
    /\ (pc = "rf_start" /\ (reserve \/ pending = 0)) ~> (pc = "done")

C18_Witness ==
    /\ pc = "done"
    /\ ~infinite
    /\ round = 1
    /\ reserve
    /\ launchCalls = 2
    /\ pending = 0
    /\ ~stolen
    /\ errors_logged = {}

\* C20: in infinite mode, once a delivered interrupt has been followed by
\* a sleep, rapidfire is not at, nor on its way into, a submission.
C20_NoSubmissionAfterSleepBoundary ==
    (infinite /\ stop_signal = "slept") =>
        pc \notin {"rotate", "mk_launcher", "l_enter", "l_reserve",
                   "l_render", "l_submit"}

====
